---- MODULE Spec2Model ----
(***************************************************************************)
(* The recurring-task scheduler of tokenring-ai/scheduler.                 *)
(*                                                                         *)
(* Instants are whole seconds since the Unix epoch (the source keeps       *)
(* milliseconds; every instant used here is a whole second).  A timezone   *)
(* is a fixed offset from UTC in seconds, or the zone America/New_York     *)
(* with its daylight-saving transitions of 2024.  A string is a sequence   *)
(* of one-character strings, so that parsing is computed character by      *)
(* character as the source's regular expression does.                      *)
(***************************************************************************)
EXTENDS Integers, Sequences, FiniteSets, TLC

(***************************************************************************)
(* Bounds of the model.                                                    *)
(***************************************************************************)
MaxTicks == 1
MaxRuns == 2

\* The runs started and the hours that pass when the scheduler is left to
\* itself: one more than the records a history is said to hold.
MaxLongRuns == 51

MaxLongTicks == 51

\* The length of the interval strings enumerated over IntervalChars.
MaxIntervalLen == 6

\* The days after the clock's reading for which a day is tested.
MaxDaysTested == 34

\* The polls the polling scheduler makes.
MaxPolls == 4

\* The days that pass and the runs started while the scheduler is left
\* waiting for a task's day.
MaxWaitDays == 61

MaxWaitRuns == 3

\* The days the polling scheduler is left running.
MaxPollDays == 33

(***************************************************************************)
(* Program constants.                                                      *)
(***************************************************************************)
SecondSecs == 1
MinuteSecs == 60
HourSecs == 3600
DaySecs == 86400
MAX_DAYS_AHEAD == 30
HistoryLimit == 50
NoTime == -1
NaN == -2

(***************************************************************************)
(* Characters and strings.                                                 *)
(***************************************************************************)
Digits == {"0", "1", "2", "3", "4", "5", "6", "7", "8", "9"}

LowerLetters ==
  {"a", "b", "c", "d", "e", "f", "g", "h", "i", "j", "k", "l", "m",
   "n", "o", "p", "q", "r", "s", "t", "u", "v", "w", "x", "y", "z"}

UpperLetters ==
  {"A", "B", "C", "D", "E", "F", "G", "H", "I", "J", "K", "L", "M",
   "N", "O", "P", "Q", "R", "S", "T", "U", "V", "W", "X", "Y", "Z"}

WhiteSpace == {" ", "\t", "\n"}

WordChars == Digits \cup LowerLetters \cup UpperLetters \cup {"_"}

DigitVal(c) ==
  CASE c = "0" -> 0 [] c = "1" -> 1 [] c = "2" -> 2 [] c = "3" -> 3
    [] c = "4" -> 4 [] c = "5" -> 5 [] c = "6" -> 6 [] c = "7" -> 7
    [] c = "8" -> 8 [] c = "9" -> 9

LowerChar(c) ==
  CASE c = "A" -> "a" [] c = "B" -> "b" [] c = "C" -> "c" [] c = "D" -> "d"
    [] c = "E" -> "e" [] c = "F" -> "f" [] c = "G" -> "g" [] c = "H" -> "h"
    [] c = "I" -> "i" [] c = "J" -> "j" [] c = "K" -> "k" [] c = "L" -> "l"
    [] c = "M" -> "m" [] c = "N" -> "n" [] c = "O" -> "o" [] c = "P" -> "p"
    [] c = "Q" -> "q" [] c = "R" -> "r" [] c = "S" -> "s" [] c = "T" -> "t"
    [] c = "U" -> "u" [] c = "V" -> "v" [] c = "W" -> "w" [] c = "X" -> "x"
    [] c = "Y" -> "y" [] c = "Z" -> "z" [] OTHER -> c

ToLowerCase(s) == [i \in 1..Len(s) |-> LowerChar(s[i])]

\* String.prototype.includes: sub occurs in s as a contiguous substring.
Includes(s, sub) ==
  \E i \in 0..(Len(s) - Len(sub)) :
    \A j \in 1..Len(sub) : s[i + j] = sub[j]

\* The length of the longest prefix of s from position i on whose
\* characters all lie in class (a greedy +/* of the regular expression).
RECURSIVE SpanLen(_, _, _)
SpanLen(s, i, class) ==
  IF i <= Len(s) /\ s[i] \in class THEN 1 + SpanLen(s, i + 1, class) ELSE 0

\* parseInt of a sequence of decimal digits.
RECURSIVE ParseInt(_)
ParseInt(ds) ==
  IF Len(ds) = 0 THEN 0
  ELSE 10 * ParseInt(SubSeq(ds, 1, Len(ds) - 1)) + DigitVal(ds[Len(ds)])

(***************************************************************************)
(* parseInterval                                                           *)
(***************************************************************************)
\* The names a lookup in an object literal finds on Object.prototype that
\* consist of word characters and have no upper-case letter.
ObjectPrototypeKeys ==
  { <<"c", "o", "n", "s", "t", "r", "u", "c", "t", "o", "r">>,
    <<"_", "_", "p", "r", "o", "t", "o", "_", "_">> }

\* INTERVALS[unit]: NoTime stands for undefined, NaN for an inherited value,
\* which is truthy and no number.
INTERVALS(unit) ==
  CASE unit = <<"s", "e", "c", "o", "n", "d">> -> SecondSecs
    [] unit = <<"s", "e", "c", "o", "n", "d", "s">> -> SecondSecs
    [] unit = <<"m", "i", "n", "u", "t", "e">> -> MinuteSecs
    [] unit = <<"m", "i", "n", "u", "t", "e", "s">> -> MinuteSecs
    [] unit = <<"h", "o", "u", "r">> -> HourSecs
    [] unit = <<"h", "o", "u", "r", "s">> -> HourSecs
    [] unit = <<"d", "a", "y">> -> DaySecs
    [] unit = <<"d", "a", "y", "s">> -> DaySecs
    [] unit \in ObjectPrototypeKeys -> NaN
    [] OTHER -> NoTime

\* /^\s*(\d+)\s+(\w+)\s*$/ and the unit lookup; NoTime stands for null, NaN
\* for the product of a number and a value that is none.
parseInterval(interval) ==
  LET ws1 == SpanLen(interval, 1, WhiteSpace)
      nd == SpanLen(interval, ws1 + 1, Digits)
      ws2 == SpanLen(interval, ws1 + nd + 1, WhiteSpace)
      nw == SpanLen(interval, ws1 + nd + ws2 + 1, WordChars)
      ws3 == SpanLen(interval, ws1 + nd + ws2 + nw + 1, WhiteSpace)
      matched == /\ nd > 0
                 /\ ws2 > 0
                 /\ nw > 0
                 /\ ws1 + nd + ws2 + nw + ws3 = Len(interval)
      num == SubSeq(interval, ws1 + 1, ws1 + nd)
      unit == SubSeq(interval, ws1 + nd + ws2 + 1, ws1 + nd + ws2 + nw)
      multiplier == INTERVALS(ToLowerCase(unit))
  IN IF ~matched THEN NoTime
     ELSE IF multiplier = NoTime THEN NoTime
     ELSE IF multiplier = NaN THEN NaN
     ELSE ParseInt(num) * multiplier

(***************************************************************************)
(* Calendar arithmetic of moment-timezone.                                 *)
(***************************************************************************)
\* The zone "America/New_York"; every other zone is its own offset from UTC.
AmericaNewYork == 1

\* Daylight saving time of 2024 in America/New_York: from 2024-03-10T07:00Z
\* (02:00 EST) to 2024-11-03T06:00Z (02:00 EDT).
DstStart == 19792 * DaySecs + 7 * HourSecs
DstEnd == 20030 * DaySecs + 6 * HourSecs

\* moment#utcOffset() at instant t, in seconds.
UtcOffset(t, tz) ==
  IF tz = AmericaNewYork
  THEN IF DstStart <= t /\ t < DstEnd THEN -(4 * HourSecs) ELSE -(5 * HourSecs)
  ELSE tz

\* The offsets a zone ever has.
ZoneOffsets(tz) ==
  IF tz = AmericaNewYork THEN {-(4 * HourSecs), -(5 * HourSecs)} ELSE {tz}

\* The instant at which the zone's clock shows secs seconds past midnight of
\* local day number day: the earlier instant of a repeated hour, and the
\* time moved forward by the jump for an hour that is skipped.
LocalInstant(day, secs, tz) ==
  LET local == day * DaySecs + secs
      candidates == {local - o : o \in ZoneOffsets(tz)}
      exact == {m \in candidates : m + UtcOffset(m, tz) = local}
  IN IF exact # {}
     THEN CHOOSE m \in exact : \A x \in exact : m <= x
     ELSE CHOOSE m \in candidates : \A x \in candidates : m >= x

\* Days since 1970-01-01 of the local calendar day of instant t.
DayIndex(t, tz) == (t + UtcOffset(t, tz)) \div DaySecs

\* moment#startOf('day')
StartOfDay(t, tz) == LocalInstant(DayIndex(t, tz), 0, tz)

\* moment#day(): 0 = Sunday; 1970-01-01 was a Thursday.
WeekdayOf(t, tz) == (DayIndex(t, tz) + 4) % 7

\* moment#date(): the day of the month of the proleptic Gregorian calendar.
DateOf(t, tz) ==
  LET z == DayIndex(t, tz) + 719468
      era == z \div 146097
      doe == z - era * 146097
      yoe == (doe - doe \div 1460 + doe \div 36524 - doe \div 146096) \div 365
      doy == doe - (365 * yoe + yoe \div 4 - yoe \div 100)
      mp == (5 * doy + 2) \div 153
  IN doy - (153 * mp + 2) \div 5 + 1

\* moment#hour(h).minute(m).second(0)
SetHourMinute(t, tz, h, m) ==
  LocalInstant(DayIndex(t, tz), h * HourSecs + m * MinuteSecs, tz)

\* moment#format('ddd').toLowerCase()
WEEK_DAYS(d) ==
  CASE d = 0 -> <<"s", "u", "n">> [] d = 1 -> <<"m", "o", "n">>
    [] d = 2 -> <<"t", "u", "e">> [] d = 3 -> <<"w", "e", "d">>
    [] d = 4 -> <<"t", "h", "u">> [] d = 5 -> <<"f", "r", "i">>
    [] d = 6 -> <<"s", "a", "t">>

(***************************************************************************)
(* Task definitions (ScheduledTask).  An absent string is <<>> (absent and *)
(* empty are both falsy), an absent dayOfMonth is 0, an absent from/to is  *)
(* <<>> and a present one is <<hour, minute>>; lastRunTime defaults to 0   *)
(* and several (overlapping runs allowed) to FALSE.  repeat, after and     *)
(* before are the fields src/utility/getNextRunTime.ts reads; a task of    *)
(* src/schema.ts has none of them.                                         *)
(***************************************************************************)
ScheduledTask(every, once, from, to, on, dayOfMonth, lastRunTime, tz, msg) ==
  [every |-> every, once |-> once, from |-> from, to |-> to, on |-> on,
   dayOfMonth |-> dayOfMonth, lastRunTime |-> lastRunTime, present |-> TRUE,
   several |-> FALSE, timezone |-> tz, message |-> msg,
   repeat |-> <<>>, after |-> <<>>, before |-> <<>>]

\* The value of tasks.get(name) for a name that is not registered.
NoTask ==
  [every |-> <<>>, once |-> FALSE, from |-> <<>>, to |-> <<>>, on |-> <<>>,
   dayOfMonth |-> 0, lastRunTime |-> 0, present |-> FALSE, several |-> FALSE,
   timezone |-> 0, message |-> "", repeat |-> <<>>, after |-> <<>>,
   before |-> <<>>]

(***************************************************************************)
(* checkDayConditions                                                      *)
(***************************************************************************)
\* checkDayConditions passing a day that meets either constraint.
checkDayConditionsEither(task, t) ==
  \/ task.dayOfMonth # 0 /\ task.dayOfMonth = DateOf(t, task.timezone)
  \/ /\ Len(task.on) > 0
     /\ Includes(ToLowerCase(task.on), WEEK_DAYS(WeekdayOf(t, task.timezone)))

checkDayConditions(task, t) ==
  /\ ~(task.dayOfMonth # 0 /\ task.dayOfMonth # DateOf(t, task.timezone))
  /\ ~(/\ Len(task.on) > 0
       /\ ~Includes(ToLowerCase(task.on), WEEK_DAYS(WeekdayOf(t, task.timezone))))

(***************************************************************************)
(* getNextRunTime                                                          *)
(***************************************************************************)
\* The candidate instant examined for day offset daysOffset.
CheckDay(task, earliestRunTime, daysOffset) ==
  IF daysOffset > 0
  THEN LocalInstant(DayIndex(earliestRunTime, task.timezone) + daysOffset, 0,
                    task.timezone)
  ELSE earliestRunTime

\* The candidate after it was moved up to the window's start.
AfterFrom(task, checkDay) ==
  IF Len(task.from) > 0
  THEN LET fromTime == SetHourMinute(checkDay, task.timezone, task.from[1], task.from[2])
       IN IF checkDay < fromTime THEN fromTime ELSE checkDay
  ELSE checkDay

\* Whether the candidate lies after the window's end.
AfterTo(task, checkDay) ==
  /\ Len(task.to) > 0
  /\ checkDay > SetHourMinute(checkDay, task.timezone, task.to[1], task.to[2])

\* WalkDays giving up one day earlier.
RECURSIVE WalkDaysShort(_, _, _, _)
WalkDaysShort(task, earliestRunTime, daysOffset, now) ==
  IF daysOffset >= MAX_DAYS_AHEAD THEN NoTime
  ELSE LET checkDay == CheckDay(task, earliestRunTime, daysOffset)
           moved == AfterFrom(task, checkDay)
       IN IF ~checkDayConditions(task, checkDay)
          THEN WalkDaysShort(task, earliestRunTime, daysOffset + 1, now)
          ELSE IF AfterTo(task, moved)
          THEN WalkDaysShort(task, earliestRunTime, daysOffset + 1, now)
          ELSE IF moved < now THEN now ELSE moved

\* The loop over daysOffset = 0 .. MAX_DAYS_AHEAD.
RECURSIVE WalkDays(_, _, _, _)
WalkDays(task, earliestRunTime, daysOffset, now) ==
  IF daysOffset > MAX_DAYS_AHEAD THEN NoTime
  ELSE LET checkDay == CheckDay(task, earliestRunTime, daysOffset)
           moved == AfterFrom(task, checkDay)
       IN IF ~checkDayConditions(task, checkDay)
          THEN WalkDays(task, earliestRunTime, daysOffset + 1, now)
          ELSE IF AfterTo(task, moved)
          THEN WalkDays(task, earliestRunTime, daysOffset + 1, now)
          ELSE IF moved < now THEN now ELSE moved

\* EarliestRunTime starting an interval task that never ran one interval
\* from now.
EarliestRunTimeAfterInterval(task, now) ==
  IF Len(task.every) > 0
  THEN (IF task.lastRunTime # 0 THEN task.lastRunTime ELSE now)
         + parseInterval(task.every)
  ELSE IF task.lastRunTime # 0
       THEN StartOfDay(task.lastRunTime + DaySecs, task.timezone)
       ELSE now

EarliestRunTime(task, now) ==
  IF Len(task.every) > 0
  THEN IF task.lastRunTime # 0
       THEN task.lastRunTime + parseInterval(task.every)
       ELSE now
  ELSE IF task.lastRunTime # 0
       THEN StartOfDay(task.lastRunTime + DaySecs, task.timezone)
       ELSE now

getNextRunTime(task, now) ==
  IF Len(task.every) > 0
  THEN IF parseInterval(task.every) \in {NoTime, NaN, 0}
       THEN NoTime
       ELSE WalkDays(task, EarliestRunTime(task, now), 0, now)
  ELSE IF task.once
       THEN WalkDays(task, EarliestRunTime(task, now), 0, now)
       ELSE NoTime

\* getNextRunTime of src/utility/getNextRunTime.ts: it reads repeat, after
\* and before where the one above reads every, from and to, and takes every
\* task without repeat as one that runs once a day.
getNextRunTimeRepeat(task, now) ==
  getNextRunTime([task EXCEPT !.every = task.repeat, !.from = task.after,
                              !.to = task.before, !.once = TRUE], now)

(***************************************************************************)
(* The scheduler of one agent: ScheduleTaskState, ScheduleExecutionState,  *)
(* the armed timers of the host, the runs in flight and the clock.         *)
(***************************************************************************)
VARIABLES
  tasks,            \* ScheduleTaskState.tasks: name -> ScheduledTask
  history,          \* ScheduleTaskState.history: name -> TaskRunHistory[]
  exec,             \* ScheduleExecutionState.tasks: name -> entry
  abortController,  \* ScheduleExecutionState.abortController
  autoStart,        \* ScheduleExecutionState.autoStart
  timers,           \* the timers setTimeout has armed and not yet fired
  runs,             \* the runTask invocations waiting for their runner
  dirty,            \* a change of ScheduleTaskState watchTasks has not seen
  now,              \* Date.now()
  invocations,      \* the number of agent.handleInput calls made so far
  last              \* what the last step reported: an error, a call's outcome, a run's end

vars ==
  <<tasks, history, exec, abortController, autoStart, timers, runs, dirty,
    now, invocations, last>>

Names == {"A", "B"}

\* 2024-03-01T10:00:00Z, a Friday.
StartTime == 19783 * DaySecs + 10 * HourSecs

OneHour == <<"1", " ", "h", "o", "u", "r">>

\* The definitions callers register under each name.
TaskDefs(name) ==
  IF name = "A"
  THEN { ScheduledTask(OneHour, FALSE, <<>>, <<>>, <<>>, 0, 0, 0, "m1"),
         ScheduledTask(OneHour, FALSE, <<>>, <<>>, <<>>, 0, 0, 0, "m2"),
         ScheduledTask(<<>>, FALSE, <<>>, <<>>, <<>>, 0, 0, 0, "m1") }
  ELSE { ScheduledTask(<<>>, TRUE, <<>>, <<>>, <<>>, 0, 0, 0, "m3") }

\* The task maps of the configurations an agent is attached with.
InitialTasks ==
  { [n \in Names |-> NoTask],
    [n \in Names |-> IF n = "A"
                     THEN ScheduledTask(OneHour, FALSE, <<>>, <<>>, <<>>, 0, 0, 0, "m1")
                     ELSE NoTask] }

\* The messages an input.handled event carries, by its status.
RunnerMessages(status) == IF status = "success" THEN {"done"} ELSE {"boom"}

RunnerStatuses == {"success", "error"}

\* An absent execution entry (tasks.get(name) is undefined).
NoEntry ==
  [status |-> "none", nextRunTime |-> NoTime, timer |-> 0, abort |-> 0,
   startTime |-> NoTime]

isEmpty(ts) == \A n \in Names : ~ts[n].present

Step(op, name, result, message) ==
  [message |-> message, name |-> name, op |-> op, result |-> result]

\* A step that throws nothing and ends no run.
Quiet == Step("", "", "", "")

\* The handle setTimeout returns: the least one not armed for the name.
NewTimer(name, armed) ==
  CHOOSE k \in 1..(Cardinality(armed) + 1) :
    /\ \A t \in armed : ~(t.name = name /\ t.id = k)
    /\ \A j \in 1..(k - 1) : \E t \in armed : t.name = name /\ t.id = j

\* clearTimeout(handle)
clearTimeout(name, handle, armed) ==
  {t \in armed : ~(t.name = name /\ t.id = handle)}

\* new AbortController() of a run: the least identity not in use for the name.
NewRun(name) ==
  CHOOSE k \in 1..(Cardinality(runs) + 1) :
    /\ \A r \in runs : ~(r.name = name /\ r.id = k)
    /\ \A j \in 1..(k - 1) : \E r \in runs : r.name = name /\ r.id = j

\* The runs in flight and the timers armed for one name.
RunsOf(name) == {r \in runs : r.name = name}

TimersOf(name, armed) == {t \in armed : t.name = name}

(***************************************************************************)
(* attach: the state after construction.                                   *)
(***************************************************************************)
Init ==
  /\ tasks \in InitialTasks
  /\ autoStart \in BOOLEAN
  /\ history = [n \in Names |-> <<>>]
  /\ exec = [n \in Names |-> NoEntry]
  /\ abortController = IF autoStart /\ ~isEmpty(tasks) THEN "live" ELSE "null"
  /\ dirty = (autoStart /\ ~isEmpty(tasks))
  /\ timers = {}
  /\ runs = {}
  /\ now = StartTime
  /\ invocations = 0
  /\ last = Quiet

(***************************************************************************)
(* runScheduler, stopScheduler and the end of the watch loop.              *)
(***************************************************************************)
\* runSchedulerResult without the check for a scheduler that is running.
runSchedulerResultUnguarded(ts) ==
  IF isEmpty(ts) THEN "no tasks" ELSE "started"

\* What runScheduler does with the registry ts: its two early returns.
runSchedulerResult(ts) ==
  IF abortController # "null" THEN "already running"
  ELSE IF isEmpty(ts) THEN "no tasks"
  ELSE "started"

\* runScheduler(agent): it reports "already running" and "no tasks" as
\* warnings and the start as an info message.
RunScheduler ==
  /\ abortController' =
       IF runSchedulerResult(tasks) = "started" THEN "live" ELSE abortController
  /\ dirty' = IF runSchedulerResult(tasks) = "started" THEN TRUE ELSE dirty
  /\ last' = Step("runScheduler", "", runSchedulerResult(tasks), "")
  /\ UNCHANGED <<tasks, history, exec, autoStart, timers, runs, now, invocations>>

\* stopScheduler(agent): it warns when there is nothing to stop.
StopScheduler ==
  /\ abortController' = IF abortController = "null" THEN "null" ELSE "aborted"
  /\ last' = Step("stopScheduler", "",
                  IF abortController = "null" THEN "Scheduler is not running" ELSE "", "")
  /\ UNCHANGED <<tasks, history, exec, autoStart, timers, runs, dirty, now,
                 invocations>>

\* CleanupEntry keeping an entry that has neither timer nor abortController.
CleanupEntryKeepIdle(e) ==
  IF e.status = "none" THEN e
  ELSE IF e.timer # 0 THEN NoEntry
  ELSE e

\* What the loop's end makes of one execution entry.
CleanupEntry(e) ==
  IF e.status = "none" THEN e
  ELSE IF e.timer # 0 THEN NoEntry
  ELSE IF e.abort # 0 THEN e
  ELSE NoEntry

\* CleanupTimers clearing no timer.
CleanupTimersLeft == timers

\* The timers the loop's end leaves armed.
CleanupTimers ==
  {t \in timers : ~(exec[t.name].status # "none" /\ exec[t.name].timer = t.id)}

\* CleanupRuns leaving every run as it is.
CleanupRunsLeft == runs

\* The runs after the loop's end aborted those of the entries without timer.
CleanupRuns ==
  { IF /\ exec[r.name].status # "none"
       /\ exec[r.name].timer = 0
       /\ exec[r.name].abort = r.id
    THEN [r EXCEPT !.aborted = TRUE]
    ELSE r : r \in runs }

\* SchedulerComplete resetting the abortController and nothing else.
SchedulerCompleteResetOnly ==
  /\ abortController = "aborted"
  /\ abortController' = "null"
  /\ dirty' = FALSE
  /\ last' = Quiet
  /\ UNCHANGED <<tasks, history, exec, autoStart, timers, runs, now, invocations>>

\* The continuation of runScheduler once watchTasks has returned.
SchedulerComplete ==
  /\ abortController = "aborted"
  /\ abortController' = "null"
  /\ exec' = [n \in Names |-> CleanupEntry(exec[n])]
  /\ timers' = CleanupTimers
  /\ runs' = CleanupRuns
  /\ dirty' = FALSE
  /\ last' = Quiet
  /\ UNCHANGED <<tasks, history, autoStart, now, invocations>>

(***************************************************************************)
(* addTask and removeTask.                                                 *)
(***************************************************************************)
\* AddTask whose change of the registry does not reach the watch loop.
AddTaskUnnoticed(name, task) ==
  /\ tasks' = [tasks EXCEPT ![name] = task]
  /\ abortController' =
       IF autoStart /\ abortController = "null" THEN "live" ELSE abortController
  /\ dirty' = (dirty \/ abortController # abortController')
  /\ last' = Quiet
  /\ UNCHANGED <<history, exec, autoStart, timers, runs, now, invocations>>

AddTask(name, task) ==
  /\ tasks' = [tasks EXCEPT ![name] = task]
  /\ abortController' =
       IF autoStart /\ abortController = "null" THEN "live" ELSE abortController
  /\ dirty' = (abortController' = "live")
  /\ last' = Quiet
  /\ UNCHANGED <<history, exec, autoStart, timers, runs, now, invocations>>

\* RemoveEntry deleting the entry whether or not it holds a timer.
RemoveEntryAnyStatus(e) == IF e.status # "none" THEN NoEntry ELSE e

\* The entry removeTask leaves for a registered task.
RemoveEntry(e) == IF e.status # "none" /\ e.timer # 0 THEN NoEntry ELSE e

\* RemoveTask deleting the execution entry before it looks the name up.
RemoveTaskDeleteFirst(name) ==
  IF ~tasks[name].present
  THEN /\ last' = Step("removeTask", name, "Task not found", "")
       /\ exec' = [exec EXCEPT ![name] = NoEntry]
       /\ timers' = {t \in timers : t.name # name}
       /\ UNCHANGED <<tasks, history, abortController, autoStart, runs, dirty,
                      now, invocations>>
  ELSE /\ exec' = [exec EXCEPT ![name] = RemoveEntry(exec[name])]
       /\ timers' = IF exec[name].status # "none" /\ exec[name].timer # 0
                    THEN clearTimeout(name, exec[name].timer, timers)
                    ELSE timers
       /\ tasks' = [tasks EXCEPT ![name] = NoTask]
       /\ dirty' = (abortController = "live")
       /\ last' = Quiet
       /\ UNCHANGED <<history, abortController, autoStart, runs, now, invocations>>

\* RemoveTask recording the removal of a task in the history of its name.
RemoveTaskRecording(name) ==
  IF ~tasks[name].present
  THEN /\ last' = Step("removeTask", name, "Task not found", "")
       /\ UNCHANGED <<tasks, history, exec, abortController, autoStart, timers,
                      runs, dirty, now, invocations>>
  ELSE /\ exec' = [exec EXCEPT ![name] = RemoveEntry(exec[name])]
       /\ timers' = IF exec[name].status # "none" /\ exec[name].timer # 0
                    THEN clearTimeout(name, exec[name].timer, timers)
                    ELSE timers
       /\ tasks' = [tasks EXCEPT ![name] = NoTask]
       /\ history' = [history EXCEPT ![name] =
                        Append(@, [message |-> "Task removed", status |-> "failed",
                                   startTime |-> 0, endTime |-> now])]
       /\ dirty' = (abortController = "live")
       /\ last' = Quiet
       /\ UNCHANGED <<abortController, autoStart, runs, now, invocations>>

RemoveTask(name) ==
  IF ~tasks[name].present
  THEN /\ last' = Step("removeTask", name, "Task not found", "")
       /\ UNCHANGED <<tasks, history, exec, abortController, autoStart, timers,
                      runs, dirty, now, invocations>>
  ELSE /\ exec' = [exec EXCEPT ![name] = RemoveEntry(exec[name])]
       /\ timers' = IF exec[name].status # "none" /\ exec[name].timer # 0
                    THEN clearTimeout(name, exec[name].timer, timers)
                    ELSE timers
       /\ tasks' = [tasks EXCEPT ![name] = NoTask]
       /\ dirty' = (abortController = "live")
       /\ last' = Quiet
       /\ UNCHANGED <<history, abortController, autoStart, runs, now, invocations>>

(***************************************************************************)
(* watchTasks: one iteration of the loop over the task state's changes.    *)
(***************************************************************************)
\* The timer armed for name at nextRunTime, given the timers armed so far.
ArmTimer(name, nextRunTime, armed) ==
  [message |-> tasks[name].message, name |-> name,
   id |-> NewTimer(name, armed), due |-> nextRunTime]

\* WatchTask without the check that an entry in place is still pending.
WatchTaskAnyStatus(name) ==
  LET e == exec[name]
      nextRunTime == getNextRunTime(tasks[name], now)
      cleared == IF e.timer # 0 THEN clearTimeout(name, e.timer, timers) ELSE timers
  IN IF e.status # "none"
     THEN IF e.nextRunTime = nextRunTime
          THEN [entry |-> e, armed |-> timers]
          ELSE IF nextRunTime # NoTime
          THEN [entry |-> [e EXCEPT !.nextRunTime = nextRunTime,
                                    !.timer = NewTimer(name, cleared)],
                armed |-> cleared \cup {ArmTimer(name, nextRunTime, cleared)}]
          ELSE [entry |-> [e EXCEPT !.nextRunTime = NoTime, !.timer = 0],
                armed |-> cleared]
     ELSE IF nextRunTime # NoTime
     THEN [entry |-> [status |-> "pending", nextRunTime |-> nextRunTime,
                      timer |-> NewTimer(name, timers), abort |-> 0,
                      startTime |-> NoTime],
           armed |-> timers \cup {ArmTimer(name, nextRunTime, timers)}]
     ELSE [entry |-> e, armed |-> timers]

\* WatchTask re-arming a Pending entry without clearing the timer in place.
WatchTaskKeepTimer(name) ==
  LET e == exec[name]
      nextRunTime == getNextRunTime(tasks[name], now)
  IN IF e.status # "none"
     THEN IF e.status # "pending" \/ e.nextRunTime = nextRunTime
          THEN [entry |-> e, armed |-> timers]
          ELSE IF nextRunTime # NoTime
          THEN [entry |-> [e EXCEPT !.nextRunTime = nextRunTime,
                                    !.timer = NewTimer(name, timers)],
                armed |-> timers \cup {ArmTimer(name, nextRunTime, timers)}]
          ELSE [entry |-> [e EXCEPT !.nextRunTime = NoTime, !.timer = 0],
                armed |-> timers]
     ELSE IF nextRunTime # NoTime
     THEN [entry |-> [status |-> "pending", nextRunTime |-> nextRunTime,
                      timer |-> NewTimer(name, timers), abort |-> 0,
                      startTime |-> NoTime],
           armed |-> timers \cup {ArmTimer(name, nextRunTime, timers)}]
     ELSE [entry |-> e, armed |-> timers]

\* WatchTask leaving a Pending entry that holds a null due time as it is.
WatchTaskCachingNull(name) ==
  LET e == exec[name]
      nextRunTime == getNextRunTime(tasks[name], now)
      cleared == IF e.timer # 0 THEN clearTimeout(name, e.timer, timers) ELSE timers
  IN IF e.status # "none"
     THEN IF e.status # "pending" \/ e.nextRunTime = nextRunTime
             \/ e.nextRunTime = NoTime
          THEN [entry |-> e, armed |-> timers]
          ELSE IF nextRunTime # NoTime
          THEN [entry |-> [e EXCEPT !.nextRunTime = nextRunTime,
                                    !.timer = NewTimer(name, cleared)],
                armed |-> cleared \cup {ArmTimer(name, nextRunTime, cleared)}]
          ELSE [entry |-> [e EXCEPT !.nextRunTime = NoTime, !.timer = 0],
                armed |-> cleared]
     ELSE IF nextRunTime # NoTime
     THEN [entry |-> [status |-> "pending", nextRunTime |-> nextRunTime,
                      timer |-> NewTimer(name, timers), abort |-> 0,
                      startTime |-> NoTime],
           armed |-> timers \cup {ArmTimer(name, nextRunTime, timers)}]
     ELSE [entry |-> e, armed |-> timers]

\* The entry and the armed timers of one registered task after the iteration.
WatchTask(name) ==
  LET e == exec[name]
      nextRunTime == getNextRunTime(tasks[name], now)
      cleared == IF e.timer # 0 THEN clearTimeout(name, e.timer, timers) ELSE timers
  IN IF e.status # "none"
     THEN IF e.status # "pending" \/ e.nextRunTime = nextRunTime
          THEN [entry |-> e, armed |-> timers]
          ELSE IF nextRunTime # NoTime
          THEN [entry |-> [e EXCEPT !.nextRunTime = nextRunTime,
                                    !.timer = NewTimer(name, cleared)],
                armed |-> cleared \cup {ArmTimer(name, nextRunTime, cleared)}]
          ELSE [entry |-> [e EXCEPT !.nextRunTime = NoTime, !.timer = 0],
                armed |-> cleared]
     ELSE IF nextRunTime # NoTime
     THEN [entry |-> [status |-> "pending", nextRunTime |-> nextRunTime,
                      timer |-> NewTimer(name, timers), abort |-> 0,
                      startTime |-> NoTime],
           armed |-> timers \cup {ArmTimer(name, nextRunTime, timers)}]
     ELSE [entry |-> e, armed |-> timers]

WatchTasks ==
  /\ abortController = "live"
  /\ dirty
  /\ exec' = [n \in Names |->
                IF tasks[n].present THEN WatchTask(n).entry ELSE exec[n]]
  /\ timers' = {t \in UNION {IF tasks[n].present THEN WatchTask(n).armed ELSE timers
                             : n \in Names} :
                  IF tasks[t.name].present
                  THEN t \in WatchTask(t.name).armed
                  ELSE t \in timers}
  /\ dirty' = FALSE
  /\ last' = Quiet
  /\ UNCHANGED <<tasks, history, abortController, autoStart, runs, now,
                 invocations>>

(***************************************************************************)
(* runTask and handleTaskFinished.                                         *)
(***************************************************************************)
\* The history record handleTaskFinished appends for the entry it found.
HistoryRecord(e, status, message) ==
  [message |-> message, status |-> status,
   startTime |-> IF e.status = "none" \/ e.startTime = NoTime THEN 0 ELSE e.startTime,
   endTime |-> now]

\* FinishedTasks leaving lastRunTime as it was.
FinishedTasksUnstamped(name) == tasks

\* FinishedTasks stamping the time the run started, not the time it ended.
FinishedTasksFromStart(name) ==
  IF tasks[name].present
  THEN [tasks EXCEPT ![name] =
          [@ EXCEPT !.lastRunTime =
             IF exec[name].startTime = NoTime THEN now ELSE exec[name].startTime]]
  ELSE tasks

\* The registry after handleTaskFinished.
FinishedTasks(name) ==
  IF tasks[name].present
  THEN [tasks EXCEPT ![name] = [@ EXCEPT !.lastRunTime = now]]
  ELSE tasks

\* FinishedHistory keeping a record of the completed runs only.
FinishedHistoryCompletedOnly(name, e, status, message) ==
  IF status = "completed"
  THEN [history EXCEPT ![name] = Append(@, HistoryRecord(e, status, message))]
  ELSE history

\* The history after handleTaskFinished found entry e.
FinishedHistory(name, e, status, message) ==
  [history EXCEPT ![name] = Append(@, HistoryRecord(e, status, message))]

\* handleTaskFinished dropping every execution entry, not only the run's.
handleTaskFinishedDropAll(name, e, status, message) ==
  /\ exec' = [n \in Names |-> NoEntry]
  /\ tasks' = FinishedTasks(name)
  /\ history' = FinishedHistory(name, e, status, message)
  /\ dirty' = (abortController = "live")

\* handleTaskFinished(name, status, message), entry e being the one in place.
handleTaskFinished(name, e, status, message) ==
  /\ exec' = [exec EXCEPT ![name] = NoEntry]
  /\ tasks' = FinishedTasks(name)
  /\ history' = FinishedHistory(name, e, status, message)
  /\ dirty' = (abortController = "live")

\* The entry runTask leaves when it found one: the run has started.
RunningEntry(e, name) ==
  [e EXCEPT !.status = "running", !.startTime = now, !.timer = 0,
            !.abort = NewRun(name)]

\* A timer fires and runTask hands the message to the runner, or finds no
\* entry; limit caps the runs started.
TimerFireUpTo(t, limit) ==
  /\ t \in timers
  /\ t.due <= now
  /\ abortController # "aborted"
  /\ timers' = timers \ {t}
  /\ IF exec[t.name].status = "none"
     THEN /\ last' = Quiet
          /\ UNCHANGED <<tasks, history, exec, abortController, autoStart, runs,
                         dirty, now, invocations>>
     ELSE /\ invocations < limit
          /\ exec' = [exec EXCEPT ![t.name] = RunningEntry(@, t.name)]
          /\ runs' = runs \cup {[message |-> t.message, name |-> t.name,
                                 id |-> NewRun(t.name), aborted |-> FALSE]}
          /\ invocations' = invocations + 1
          /\ last' = Quiet
          /\ UNCHANGED <<tasks, history, abortController, autoStart, dirty, now>>

TimerFire(t) == TimerFireUpTo(t, MaxRuns)

\* A timer fires, runTask finds the entry and agent.handleInput throws.
TimerFireThrows(t) ==
  /\ t \in timers
  /\ t.due <= now
  /\ abortController # "aborted"
  /\ exec[t.name].status # "none"
  /\ invocations < MaxRuns
  /\ timers' = timers \ {t}
  /\ invocations' = invocations + 1
  /\ handleTaskFinished(t.name, RunningEntry(exec[t.name], t.name), "failed",
                        "Task failed with error")
  /\ last' = Step("runTask", t.name, "threw", "Task failed with error")
  /\ UNCHANGED <<abortController, autoStart, runs, now>>

\* The runner reports the request handled (an input.handled event).
RunnerHandled(r, status, message) ==
  /\ r \in runs
  /\ ~r.aborted
  /\ runs' = runs \ {r}
  /\ handleTaskFinished(r.name, exec[r.name],
                        IF status = "success" THEN "completed" ELSE "failed",
                        message)
  /\ last' = Step("handled", r.name, status, message)
  /\ UNCHANGED <<abortController, autoStart, timers, now, invocations>>

\* RunAborted not looking at signal.aborted once the subscription has ended.
RunAbortedNoReason(r) ==
  /\ r \in runs
  /\ r.aborted
  /\ runs' = runs \ {r}
  /\ handleTaskFinished(r.name, exec[r.name], "failed",
                        "Task exited without any reason given")
  /\ last' = Step("aborted", r.name, "failed", "Task exited without any reason given")
  /\ UNCHANGED <<abortController, autoStart, timers, now, invocations>>

\* The event subscription of an aborted run ends.
RunAborted(r) ==
  /\ r \in runs
  /\ r.aborted
  /\ runs' = runs \ {r}
  /\ handleTaskFinished(r.name, exec[r.name], "failed", "Task was aborted")
  /\ last' = Step("aborted", r.name, "failed", "Task was aborted")
  /\ UNCHANGED <<abortController, autoStart, timers, now, invocations>>

\* Time passes: an hour, limit of them at most.
TickUpTo(limit) ==
  /\ abortController # "aborted"
  /\ now - StartTime < limit * HourSecs
  /\ now' = now + HourSecs
  /\ last' = Quiet
  /\ UNCHANGED <<tasks, history, exec, abortController, autoStart, timers, runs,
                 dirty, invocations>>

Tick == TickUpTo(MaxTicks)

\* Time passes once everything due has happened: the watch loop has taken up
\* its notification, the timers due have fired, the runs have ended.
TickOnTime ==
  /\ ~dirty
  /\ runs = {}
  /\ \A t \in timers : t.due > now
  /\ TickUpTo(MaxLongTicks)

Next ==
  \/ RunScheduler
  \/ StopScheduler
  \/ SchedulerComplete
  \/ \E name \in Names : \E task \in TaskDefs(name) : AddTask(name, task)
  \/ \E name \in Names : RemoveTask(name)
  \/ WatchTasks
  \/ \E t \in timers : TimerFire(t)
  \/ \E t \in timers : TimerFireThrows(t)
  \/ \E r \in runs, status \in RunnerStatuses :
       \E message \in RunnerMessages(status) : RunnerHandled(r, status, message)
  \/ \E r \in runs : RunAborted(r)
  \/ Tick

Spec == Init /\ [][Next]_vars

\* The loop's end follows the abort: the generator returns and the
\* continuation of runScheduler runs, nothing in the code holds it back.
\* The scheduler left to itself for a long time: the tasks of the
\* configuration run on time, every run is reported as a success.
NextOnTime ==
  \/ WatchTasks
  \/ \E t \in timers : TimerFireUpTo(t, MaxLongRuns)
  \/ \E r \in runs : RunnerHandled(r, "success", "done")
  \/ TickOnTime

SpecOnTime == Init /\ [][NextOnTime]_vars

FairSpec == Spec /\ WF_vars(SchedulerComplete)

\* attach with autoStart set and the one task def configured under A, the
\* clock showing t: the watch loop is about to compute the task's due time.
AttachedWith(def, t) ==
  /\ tasks = [n \in Names |-> IF n = "A" THEN def ELSE NoTask]
  /\ autoStart = TRUE
  /\ history = [n \in Names |-> <<>>]
  /\ exec = [n \in Names |-> NoEntry]
  /\ abortController = "live"
  /\ dirty = TRUE
  /\ timers = {}
  /\ runs = {}
  /\ now = t
  /\ invocations = 0
  /\ last = Quiet

\* The interval strings a configuration may carry: every string of up to
\* MaxIntervalLen of these characters, and some longer ones.
IntervalChars == {"2", " ", "d", "a", "y", "s", "D"}

ListedIntervals ==
  { <<"1", " ", "h", "o", "u", "r">>,
    <<"3", "0", " ", "M", "i", "n", "u", "t", "e", "s">>,
    <<"2", " ", "S", "E", "C", "O", "N", "D", "S">>,
    <<" ", "1", "5", "\t", "m", "i", "n", "u", "t", "e", " ">>,
    <<"1", "0", " ", "h", "o", "u", "r", "s">>,
    <<"0", " ", "s", "e", "c", "o", "n", "d">>,
    <<"2", " ", "D", "a", "y", "s">>,
    <<"5", " ", "w", "e", "e", "k", "s">>,
    <<"1", "0">>,
    <<"m", "i", "n", "u", "t", "e", "s">>,
    <<"a", "b", "c">>,
    <<"1", " ", "h", "o", "u", "r", " ", "x">>,
    <<"1", ".", "5", " ", "h", "o", "u", "r", "s">>,
    <<"-", "1", " ", "h", "o", "u", "r">>,
    <<"1", " ", "c", "o", "n", "s", "t", "r", "u", "c", "t", "o", "r">>,
    <<"2", " ", "_", "_", "p", "r", "o", "t", "o", "_", "_">> }

IntervalInputs ==
  UNION {[1..n -> IntervalChars] : n \in 0..MaxIntervalLen} \cup ListedIntervals

InitParse ==
  \E interval \in IntervalInputs :
    AttachedWith(ScheduledTask(interval, FALSE, <<>>, <<>>, <<>>, 0, 0, 0, "m1"),
                 StartTime)

\* The watch loop computes the due time of the configured task.
SpecParse == InitParse /\ [][WatchTasks]_vars

\* The task definitions and clock readings getNextRunTime is computed for.
\* StartTime is Friday 2024-03-01 10:00 UTC.
CalcEvery ==
  { <<>>,
    <<"1", " ", "h", "o", "u", "r">>,
    <<"7", " ", "d", "a", "y", "s">>,
    <<"5", " ", "w", "e", "e", "k", "s">>,
    <<"1", " ", "c", "o", "n", "s", "t", "r", "u", "c", "t", "o", "r">> }

CalcRecurrences ==
  {<<every, FALSE>> : every \in CalcEvery} \cup {<<(<<>>), TRUE>>}

CalcWindows == {<<>>, <<9, 0>>} \X {<<>>, <<17, 0>>}

CalcOn == {<<>>, <<"F", "r", "i">>, <<"m", "o", "n", ",", "w", "e", "d">>}

CalcDayOfMonth == {0, 1, 31}

\* Sunday 2024-11-03T04:30Z, 00:30 of the day on which America/New_York
\* sets its clocks back.
FallBackTime == 20030 * DaySecs + 4 * HourSecs + 30 * MinuteSecs

CalcLastRunTimes ==
  { 0,
    StartTime - 3 * HourSecs,
    StartTime + 5 * HourSecs + 30 * MinuteSecs,
    StartTime - 22 * HourSecs,
    StartTime - 7 * DaySecs,
    FallBackTime }

CalcTimezones == {0, 2 * HourSecs, AmericaNewYork}

CalcTimes ==
  { StartTime - 90 * MinuteSecs,
    StartTime,
    StartTime + 7 * HourSecs,
    StartTime + 7 * HourSecs + 30 * SecondSecs,
    StartTime + 8 * HourSecs,
    StartTime + DaySecs,
    FallBackTime,
    FallBackTime + 15 * MinuteSecs }

CalcTasks ==
  { ScheduledTask(r[1], r[2], w[1], w[2], on, dayOfMonth, lastRunTime, tz, "m1") :
      r \in CalcRecurrences, w \in CalcWindows, on \in CalcOn,
      dayOfMonth \in CalcDayOfMonth, lastRunTime \in CalcLastRunTimes,
      tz \in CalcTimezones }

\* A task last ran, if ever, before the clock's reading.
InitCalc ==
  \E def \in CalcTasks, t \in CalcTimes :
    /\ def.lastRunTime <= t
    /\ AttachedWith(def, t)

\* The watch loop computes the due time of the configured task.
SpecCalc == InitCalc /\ [][WatchTasks]_vars

\* The loop's end follows the abort, and every runner resolves once the
\* abortController of its run is aborted: the subscription of runTask ends.
DrainSpec ==
  Spec /\ WF_vars(SchedulerComplete) /\ WF_vars(\E r \in runs : RunAborted(r))

(***************************************************************************)
(* The scheduler left running for two months with one task restricted to   *)
(* a day of the month: nothing but the watch loop, the timers, the runner  *)
(* and the clock act, and the clock moves to the next timer's due time or  *)
(* by a day.                                                               *)
(***************************************************************************)
SevenDays == <<"7", " ", "d", "a", "y", "s">>

WaitDayOfMonth == {15, 31}

\* Thursday 2024-02-01 10:00 UTC and Friday 2024-03-01 10:00 UTC.
WaitStarts == {StartTime - 29 * DaySecs, StartTime}

WaitTasks ==
  { ScheduledTask(r[1], r[2], <<>>, <<>>, <<>>, d, 0, 0, "m1") :
      r \in {<<(<<>>), TRUE>>, <<SevenDays, FALSE>>}, d \in WaitDayOfMonth }

InitWait == \E def \in WaitTasks, t \in WaitStarts : AttachedWith(def, t)

\* The clock's reading after which the model lets no time pass.
WaitEnd == StartTime - 29 * DaySecs + MaxWaitDays * DaySecs

\* The earliest due time among the armed timers, or none.
NextDue ==
  IF timers = {} THEN NoTime
  ELSE CHOOSE d \in {t.due : t \in timers} : \A t \in timers : d <= t.due

\* Time passes once everything due has happened, up to the next timer's
\* due time and by a day at most.
WaitTick ==
  /\ ~dirty
  /\ runs = {}
  /\ \A t \in timers : t.due > now
  /\ now < WaitEnd
  /\ now' = IF NextDue # NoTime /\ NextDue < now + DaySecs
             THEN NextDue ELSE now + DaySecs
  /\ last' = Quiet
  /\ UNCHANGED <<tasks, history, exec, abortController, autoStart, timers, runs,
                 dirty, invocations>>

NextWait ==
  \/ WatchTasks
  \/ \E t \in timers : TimerFireUpTo(t, MaxWaitRuns)
  \/ \E r \in runs : RunnerHandled(r, "success", "done")
  \/ WaitTick

\* What a step of WatchTasks does to dirty; no other step of NextWait takes
\* the notification up.
WatchTasksTaken == abortController = "live" /\ dirty /\ dirty' = FALSE

\* The watch loop takes up every notification (the for await of watchTasks
\* resumes with every change), a due timer fires, the runner reports every
\* request handled, and time passes.
SpecWait ==
  /\ InitWait
  /\ [][NextWait]_vars
  /\ WF_dirty(WatchTasksTaken)
  /\ WF_vars(\E t \in timers : TimerFireUpTo(t, MaxWaitRuns))
  /\ WF_vars(\E r \in runs : RunnerHandled(r, "success", "done"))
  /\ WF_vars(WaitTick)

(***************************************************************************)
(* The polling SchedulerService of src/SchedulerService.ts, held in the    *)
(* same variables: tasks is its task list (by name), exec its taskStates,  *)
(* history its runHistory, runs the runTask calls that have not returned   *)
(* or whose agent has not reported, abortController tells whether run()    *)
(* was called ("live": isRunning) and aborted, invocations counts the      *)
(* launches, last is what the last poll reported.  An absent number of a   *)
(* TaskState is 0: the code tests them for truthiness.                     *)
(***************************************************************************)
\* The period of this.app.scheduleEvery(10000, ...), in seconds.
PollSecs == 10

TenSeconds == <<"1", "0", " ", "s", "e", "c", "o", "n", "d", "s">>

TwentySeconds == <<"2", "0", " ", "s", "e", "c", "o", "n", "d", "s">>

\* A task of ScheduleTaskSchema.
PollTask(every, spaced, once, from, dayOfMonth, noLongerThan, several) ==
  [every |-> every, once |-> once, from |-> from, to |-> <<>>, on |-> <<>>,
   dayOfMonth |-> dayOfMonth, several |-> several, timezone |-> 0,
   message |-> "m1", spaced |-> spaced, noLongerThan |-> noLongerThan]

\* The task lists the service is constructed with.
PollTaskDefs(name) ==
  IF name = "A"
  THEN { PollTask(TenSeconds, <<>>, FALSE, <<>>, 0, TenSeconds, FALSE),
         PollTask(TenSeconds, <<>>, FALSE, <<>>, 0, TenSeconds, TRUE),
         PollTask(<<>>, TwentySeconds, FALSE, <<>>, 0, <<>>, FALSE) }
  ELSE { PollTask(<<>>, <<>>, TRUE, <<>>, 0, <<>>, FALSE),
         PollTask(<<>>, <<>>, TRUE, <<9, 0>>, 2, <<>>, FALSE) }

\* The TaskState the constructor sets: {isRunning: false}.
NewTaskState ==
  [startTime |-> 0, nextRun |-> 0, lastRun |-> 0, lastDay |-> 0,
   isRunning |-> FALSE, maxRunTime |-> 0]

\* What a poll reports: the tasks it logged as over their max runtime and
\* the tasks it launched.
PollReport(op, exceeded, launched) ==
  [op |-> op, exceeded |-> exceeded, launched |-> launched]

checkTimeWindowConditions(task, t) ==
  /\ ~(/\ Len(task.from) > 0
       /\ t < SetHourMinute(t, task.timezone, task.from[1], task.from[2]))
  /\ ~(/\ Len(task.to) > 0
       /\ t > SetHourMinute(t, task.timezone, task.to[1], task.to[2]) + 59)

checkTaskConditions(task, t) ==
  checkDayConditions(task, t) /\ checkTimeWindowConditions(task, t)

\* A truthy result of parseInterval.
Truthy(interval) == interval \notin {NoTime, NaN, 0}

retimeEveryTask(task, state, t) ==
  IF checkTimeWindowConditions(task, t) /\ Truthy(parseInterval(task.every))
  THEN LET interval == parseInterval(task.every)
           nextRun == IF state.lastRun # 0
                      THEN state.lastRun + interval
                      ELSE t + interval
       IN [state EXCEPT !.nextRun = IF nextRun < t THEN t + interval ELSE nextRun]
  ELSE state

retimeSpacedTask(task, state, t) ==
  IF Truthy(parseInterval(task.spaced))
  THEN [state EXCEPT !.nextRun = t + parseInterval(task.spaced)]
  ELSE state

retimeOnceTask(task, state, t) ==
  LET today == DateOf(t, task.timezone)
      runTime == IF Len(task.from) > 0
                 THEN SetHourMinute(t, task.timezone, task.from[1], task.from[2])
                 ELSE StartOfDay(t, task.timezone)
  IN IF state.lastDay = today THEN state
     ELSE IF ~checkDayConditions(task, t) THEN state
     ELSE IF runTime < t
     THEN IF checkTimeWindowConditions(task, t)
          THEN [state EXCEPT !.lastDay = today, !.nextRun = t]
          ELSE state
     ELSE [state EXCEPT !.lastDay = today, !.nextRun = runTime]

retimeTask(task, state, t) ==
  IF Len(task.every) > 0 THEN retimeEveryTask(task, state, t)
  ELSE IF Len(task.spaced) > 0 THEN retimeSpacedTask(task, state, t)
  ELSE IF task.once THEN retimeOnceTask(task, state, t)
  ELSE state

\* The TaskState after the synchronous start of runTask at t.
Launched(task, state, t) ==
  [state EXCEPT !.isRunning = TRUE, !.startTime = t,
                !.maxRunTime = IF /\ Len(task.noLongerThan) > 0
                                  /\ Truthy(parseInterval(task.noLongerThan))
                               THEN t + parseInterval(task.noLongerThan)
                               ELSE @]

\* The state with which a task that is not skipped enters the due check:
\* a task without nextRun is timed first.
PollTimed(task, state, t) ==
  IF state.nextRun = 0 THEN retimeTask(task, state, t) ELSE state

\* The due check of runTasks for a task in state timed: a due task is
\* launched if its conditions hold and timed anew if they do not.
PollDue(task, timed, t) ==
  IF timed.nextRun # 0 /\ timed.nextRun <= t
  THEN IF checkTaskConditions(task, t)
       THEN [state |-> Launched(task, [timed EXCEPT !.lastRun = t, !.nextRun = 0], t),
             exceeded |-> FALSE, launch |-> TRUE]
       ELSE [state |-> retimeTask(task, [timed EXCEPT !.nextRun = 0], t),
             exceeded |-> FALSE, launch |-> FALSE]
  ELSE [state |-> timed, exceeded |-> FALSE, launch |-> FALSE]

\* runTasks launching a task whatever its isRunning flag says.
PollOneNoSkip(task, state, t) == PollDue(task, PollTimed(task, state, t), t)

\* One pass of the loop of runTasks, for one task at clock reading t.
PollOne(task, state, t) ==
  IF state.isRunning /\ ~task.several
  THEN [state |-> state,
        exceeded |-> /\ state.maxRunTime # 0
                     /\ t - state.startTime > state.maxRunTime,
        launch |-> FALSE]
  ELSE PollDue(task, PollTimed(task, state, t), t)

\* The order of this.tasks.
PollOrder == <<"A", "B">>

\* The entry runTask pushes on runHistory.
HistoryEntry(name, t) ==
  [startTime |-> t, endTime |-> 0, taskName |-> name, error |-> ""]

\* The polls made since the clock showed StartTime.
PollsMade == (now - StartTime) \div PollSecs

InitPoll ==
  /\ tasks \in [Names -> UNION {PollTaskDefs(n) : n \in Names}]
  /\ \A n \in Names : tasks[n] \in PollTaskDefs(n)
  /\ exec = [n \in Names |-> NewTaskState]
  /\ history = <<>>
  /\ abortController = "null"
  /\ autoStart = FALSE
  /\ dirty = FALSE
  /\ timers = {}
  /\ runs = {}
  /\ now = StartTime
  /\ invocations = 0
  /\ last = PollReport("", {}, {})

\* run(signal): isRunning is set and every task is timed.
PollRun ==
  /\ abortController = "null"
  /\ abortController' = "live"
  /\ exec' = [n \in Names |-> retimeTask(tasks[n], exec[n], now)]
  /\ last' = PollReport("run", {}, {})
  /\ UNCHANGED <<tasks, history, autoStart, timers, runs, dirty, now, invocations>>

\* The signal of run is aborted: isRunning is reset.
PollAbort ==
  /\ abortController = "live"
  /\ abortController' = "aborted"
  /\ last' = PollReport("abort", {}, {})
  /\ UNCHANGED <<tasks, history, exec, autoStart, timers, runs, dirty, now,
                 invocations>>

\* The tasks a poll launches, in the order of the loop.
PollLaunches(polled) == SelectSeq(PollOrder, LAMBDA n : polled[n].launch)

\* What a poll at t leaves: the task states, and for every launch the
\* history entry and the run that the synchronous start of runTask makes.
PollEffect(polled, launches, t) ==
  /\ exec' = [n \in Names |-> polled[n].state]
  /\ history' = history \o [i \in 1..Len(launches) |-> HistoryEntry(launches[i], t)]
  /\ runs' = runs \cup
       {[name |-> launches[i], id |-> NewRun(launches[i]),
         entry |-> Len(history) + i, phase |-> "spawning"]
          : i \in 1..Len(launches)}
  /\ invocations' = invocations + Len(launches)
  /\ last' = PollReport("runTasks",
                        {n \in Names : polled[n].exceeded},
                        {n \in Names : polled[n].launch})

\* The loop of runTasks over the tasks, each polled in its state.
PollAll(polled, t) == PollEffect(polled, PollLaunches(polled), t)

\* The timer of scheduleEvery fires when the clock shows t: runTasks, with
\* the synchronous start of the runTask calls it makes.
RunTasksAt(t) ==
  /\ abortController # "null"
  /\ now' = t
  /\ IF abortController # "live"
     THEN /\ last' = PollReport("runTasks", {}, {})
          /\ UNCHANGED <<tasks, history, exec, abortController, autoStart, timers,
                         runs, dirty, invocations>>
     ELSE /\ PollAll([n \in Names |-> PollOne(tasks[n], exec[n], now')], now')
          /\ UNCHANGED <<tasks, abortController, autoStart, timers, dirty>>

\* The finally block of runTask for run r, the history being h.
RunTaskFinally(r, h) ==
  LET done == [exec[r.name] EXCEPT !.isRunning = FALSE, !.startTime = 0,
                                   !.maxRunTime = 0]
  IN /\ history' = [h EXCEPT ![r.entry].endTime = now]
     /\ exec' = [exec EXCEPT ![r.name] =
                   IF Len(tasks[r.name].spaced) > 0
                   THEN retimeTask(tasks[r.name], done, now)
                   ELSE done]

\* spawnAgent (or the wait for the agent to be idle) rejects.
SpawnFails(r) ==
  /\ r \in runs
  /\ r.phase = "spawning"
  /\ runs' = runs \ {r}
  /\ RunTaskFinally(r, [history EXCEPT ![r.entry].error = "spawn failed"])
  /\ last' = PollReport("spawnFails", {}, {})
  /\ UNCHANGED <<tasks, abortController, autoStart, timers, dirty, now,
                 invocations>>

\* The agent is spawned and idle: runTask hands it the message, subscribes
\* to its events and returns through the finally block.
AgentSubscribed(r) ==
  /\ r \in runs
  /\ r.phase = "spawning"
  /\ runs' = (runs \ {r}) \cup {[r EXCEPT !.phase = "subscribed"]}
  /\ RunTaskFinally(r, history)
  /\ last' = PollReport("subscribed", {}, {})
  /\ UNCHANGED <<tasks, abortController, autoStart, timers, dirty, now,
                 invocations>>

\* The agent reports the request handled: the subscription is ended.
InputHandled(r) ==
  /\ r \in runs
  /\ r.phase = "subscribed"
  /\ runs' = runs \ {r}
  /\ last' = PollReport("handled", {}, {})
  /\ UNCHANGED <<tasks, history, exec, abortController, autoStart, timers, dirty,
                 now, invocations>>

\* The poll that follows the poll before (or run) by the period.
RunTasks == PollsMade < MaxPolls /\ RunTasksAt(now + PollSecs)

NextPoll ==
  \/ PollRun
  \/ PollAbort
  \/ RunTasks
  \/ \E r \in runs : SpawnFails(r)
  \/ \E r \in runs : AgentSubscribed(r)
  \/ \E r \in runs : InputHandled(r)

SpecPoll == InitPoll /\ [][NextPoll]_vars

(***************************************************************************)
(* The polling scheduler left running for a month with tasks that run once *)
(* a day and have no window.  Such a task's state changes with the date    *)
(* only: once a poll has found nothing to do, the polls up to midnight     *)
(* find nothing either, and the model passes them over.                    *)
(***************************************************************************)
\* Every task is restricted to a day of the month.
MonthTaskDefs(name) ==
  IF name = "A"
  THEN { PollTask(<<>>, <<>>, TRUE, <<>>, 1, <<>>, FALSE),
         PollTask(<<>>, <<>>, TRUE, <<>>, 2, <<>>, FALSE) }
  ELSE { PollTask(<<>>, <<>>, TRUE, <<>>, 15, <<>>, FALSE) }

InitMonth ==
  /\ tasks \in [Names -> UNION {MonthTaskDefs(n) : n \in Names}]
  /\ \A n \in Names : tasks[n] \in MonthTaskDefs(n)
  /\ exec = [n \in Names |-> NewTaskState]
  /\ history = <<>>
  /\ abortController = "null"
  /\ autoStart = FALSE
  /\ dirty = FALSE
  /\ timers = {}
  /\ runs = {}
  /\ now = StartTime
  /\ invocations = 0
  /\ last = PollReport("", {}, {})

\* The clock's reading after which the model makes no poll.
MonthEnd == StartTime + MaxPollDays * DaySecs

\* Whether a poll at t would leave everything as it is.
PollIdle(t) ==
  \A n \in Names :
    /\ PollOne(tasks[n], exec[n], t).state = exec[n]
    /\ ~PollOne(tasks[n], exec[n], t).launch

\* One of the first polls after run or after midnight.
RunTasksSoon ==
  /\ now % HourSecs < MaxPolls * PollSecs
  /\ RunTasksAt(now + PollSecs)

\* The first poll of the next day, the agents launched having reported and
\* the polls of the rest of the day finding nothing to do.
RunTasksAtMidnight ==
  /\ now < MonthEnd
  /\ runs = {}
  /\ PollIdle(now + PollSecs)
  /\ RunTasksAt(StartOfDay(now, 0) + DaySecs)

NextMonth ==
  \/ PollRun
  \/ RunTasksSoon
  \/ RunTasksAtMidnight
  \/ \E r \in runs : SpawnFails(r)
  \/ \E r \in runs : AgentSubscribed(r)
  \/ \E r \in runs : InputHandled(r)

SpecMonth == InitMonth /\ [][NextMonth]_vars

(***************************************************************************)
(* Properties.                                                             *)
(***************************************************************************)
\* C1: a task that does not allow overlap has at most one run in flight
\* (one Running entry, one runner invocation not yet finished), and while
\* its entry is Running no timer is armed for it, so that no timer fire
\* starts a second run or invokes the runner a second time.
C1_NoOverlap ==
  \A n \in Names :
    ~tasks[n].several =>
      /\ Cardinality(RunsOf(n)) <= 1
      /\ exec[n].status = "running" =>
           /\ TimersOf(n, timers) = {}
           /\ \E r \in runs : r.name = n /\ r.id = exec[n].abort

\* C1's case: the loop has iterated over a replaced definition of A while
\* A's run, started an hour ago, is still in flight.
C1_Witness ==
  /\ abortController = "live"
  /\ ~dirty
  /\ exec["A"].status = "running"
  /\ exec["A"].startTime < now
  /\ \E r \in runs : r.name = "A" /\ tasks["A"].present
                     /\ tasks["A"].message # r.message

\* The steps that end a run: the runner's input.handled event, the end of an
\* aborted run's subscription, and a runner invocation that throws.
FinishOps == {"handled", "aborted", "runTask"}

Finishes(n) == last'.op \in FinishOps /\ last'.name = n

TotalHistory == Len(history["A"]) + Len(history["B"])

C3_StopCleansUp ==
  /\ [][abortController = "aborted" /\ abortController' = "null" =>
          \A n \in Names :
            /\ exec[n].status = "pending" =>
                 exec'[n] = NoEntry /\ TimersOf(n, timers') = {}
            /\ exec[n].status = "running" =>
                 /\ exec'[n] = exec[n]
                 /\ \E r \in runs' :
                      r.name = n /\ r.id = exec[n].abort /\ r.aborted]_vars
  /\ (/\ abortController = "aborted"
      /\ exec["A"].status = "pending"
      /\ exec["B"].status = "running")
       ~> (/\ abortController = "null"
           /\ exec["A"] = NoEntry
           /\ TimersOf("A", timers) = {}
           /\ \A r \in RunsOf("B") : r.aborted)

\* C3's case: the scheduler has been stopped while A waits for its armed
\* timer and B's run is in flight, not aborted yet.
C3_Witness ==
  /\ abortController = "aborted"
  /\ exec["A"].status = "pending"
  /\ \E t \in timers : t.name = "A" /\ t.id = exec["A"].timer
  /\ exec["B"].status = "running"
  /\ \E r \in runs : r.name = "B" /\ r.id = exec["B"].abort /\ ~r.aborted

\* A step that removes the task registered under n: removeTask(n) succeeded.
Removes(n) == tasks[n].present /\ ~tasks'[n].present

\* C4: removeTask(name) on a task whose execution entry is Pending deletes
\* that entry and cancels its timer: after the call there is no execution
\* entry and no armed timer for name.
C4_RemovePending ==
  [][\A n \in Names :
       Removes(n) /\ exec[n].status = "pending" =>
         exec'[n] = NoEntry /\ TimersOf(n, timers') = {}]_vars

\* C5: removeTask with a name that is not in the registry throws 'Task not
\* found' and leaves the registry, every execution entry, every timer, the
\* history, the runs and the scheduler's running state unchanged; a call
\* that removes a task does not throw.
C5_UnknownNameNoEffect ==
  [][ /\ last'.op = "removeTask" =>
           /\ ~tasks[last'.name].present
           /\ last'.result = "Task not found"
           /\ UNCHANGED <<tasks, exec, timers, history, runs, abortController,
                          autoStart, dirty>>
      /\ \A n \in Names : Removes(n) => last'.op # "removeTask" ]_vars

\* C5's case: removeTask has thrown for a name that is not registered any
\* more while its run is still in flight and another task's timer is armed.
C5_Witness ==
  /\ last.op = "removeTask"
  /\ ~tasks[last.name].present
  /\ exec[last.name].status = "running"
  /\ abortController = "live"
  /\ \E t \in timers : t.name # last.name

\* A step of addTask(n, ...) that changes the registry: the definition under
\* n is another one and no run has finished (which would set lastRunTime).
Adds(n) == tasks'[n].present /\ tasks'[n] # tasks[n] /\ history' = history

\* A step of the watch loop: it has taken up the change it was notified of.
Watches ==
  abortController = "live" /\ abortController' = "live" /\ dirty /\ ~dirty'

\* C6: addTask(name, task) stores the definition under name, replacing the
\* one in place, touches no other definition, entry, timer or history, and
\* while the scheduler is running notifies the watch loop; the iteration of
\* the loop that takes the change up gives every registered task without
\* entry and with a non-null due time a Pending entry with a timer armed for
\* that time, and re-arms a Pending entry whose due time changed to another
\* non-null time: the old timer is cleared, one timer is armed for the new.
C6_AddReschedules ==
  /\ [][\A n \in Names : Adds(n) =>
          /\ tasks'[n] \in TaskDefs(n)
          /\ \A m \in Names \ {n} : tasks'[m] = tasks[m]
          /\ UNCHANGED <<exec, timers, history, runs>>
          /\ abortController' \in {abortController, "live"}
          /\ abortController' = "live" => dirty']_vars
  /\ [][Watches =>
          \A n \in Names :
            LET due == getNextRunTime(tasks[n], now)
                rearmed ==
                  /\ exec'[n].status = "pending"
                  /\ exec'[n].nextRunTime = due
                  /\ \E t \in timers' :
                       /\ TimersOf(n, timers') = {t}
                       /\ t.id = exec'[n].timer
                       /\ t.due = due
                       /\ t.message = tasks[n].message
            IN /\ tasks[n].present /\ exec[n].status = "none" /\ due # NoTime
                    => rearmed
               /\ tasks[n].present /\ exec[n].status = "pending"
                    /\ due # NoTime /\ due # exec[n].nextRunTime
                    => rearmed]_vars

\* C6's case: while the scheduler is running, addTask has replaced the
\* definition of A, whose entry is Pending with a timer armed for the old
\* definition and whose due time is another one now, and B, registered with
\* a due time, has no entry; the watch loop has not iterated yet.
C6_Witness ==
  /\ abortController = "live" /\ dirty
  /\ tasks["A"].present /\ exec["A"].status = "pending"
  /\ getNextRunTime(tasks["A"], now) \notin {NoTime, exec["A"].nextRunTime}
  /\ \E t \in timers : /\ t.name = "A" /\ t.id = exec["A"].timer
                        /\ t.message # tasks["A"].message
  /\ tasks["B"].present /\ exec["B"].status = "none"
  /\ getNextRunTime(tasks["B"], now) # NoTime

\* The run that finishes in this step failed: the runner reported an error,
\* the run was aborted, or the invocation threw.
Fails(n) == Finishes(n) /\ ~(last'.op = "handled" /\ last'.result = "success")

\* C7: a failed run of one task does not stop the scheduler loop (the
\* scheduler's abortController is left as it is, and a running loop is
\* notified of the change) and leaves every other task's definition,
\* execution entry, armed timers, runs and history unchanged.
C7_FailureContained ==
  [][\A n \in Names : Fails(n) =>
       /\ abortController' = abortController
       /\ abortController = "live" => dirty'
       /\ history'[n][Len(history'[n])].status = "failed"
       /\ \A m \in Names \ {n} :
            /\ tasks'[m] = tasks[m]
            /\ exec'[m] = exec[m]
            /\ TimersOf(m, timers') = TimersOf(m, timers)
            /\ RunsOf(m) \subseteq runs'
            /\ history'[m] = history[m]]_vars

\* C7's case: A's run has just failed while the scheduler is running, B is
\* registered and waits for its armed timer.
C7_Witness ==
  /\ last.op \in {"handled", "runTask"} /\ last.name = "A"
  /\ last.result # "success"
  /\ history["A"] # <<>>
  /\ history["A"][Len(history["A"])].status = "failed"
  /\ abortController = "live"
  /\ tasks["B"].present /\ exec["B"].status = "pending"
  /\ \E t \in timers : t.name = "B" /\ t.id = exec["B"].timer

\* C8: when the run of a task ends (the runner reports success or failure,
\* the run was aborted, or the invocation threw), the step that ends it
\* deletes the task's execution entry, appends a history record that ends
\* now, sets the lastRunTime of the task (if still registered) to now and,
\* while the scheduler is running, notifies the watch loop by itself; the
\* iteration that takes a notification up arms a timer for the due time
\* computed from lastRunTime for every registered task that has run and has
\* no entry: lastRunTime plus the interval, or now if that has passed, for a
\* task that runs every hour.
C8_CompletionReschedules ==
  /\ [][\A n \in Names : Finishes(n) =>
          /\ last'.op # "runTask" => exec[n].status = "running"
          /\ exec'[n] = NoEntry
          /\ Len(history'[n]) = Len(history[n]) + 1
          /\ history'[n][Len(history'[n])].endTime = now
          /\ tasks'[n].present = tasks[n].present
          /\ tasks[n].present =>
               tasks'[n] = [tasks[n] EXCEPT !.lastRunTime = now]
          /\ abortController = "live" => dirty']_vars
  /\ [][Watches =>
          \A n \in Names :
            LET due == getNextRunTime(tasks[n], now)
                ran == tasks[n].lastRunTime
            IN /\ tasks[n].present /\ ran # 0
               /\ exec[n].status = "none" /\ due # NoTime
               => /\ exec'[n].status = "pending"
                  /\ exec'[n].nextRunTime = due
                  /\ \E t \in timers' : /\ t.name = n /\ t.id = exec'[n].timer
                                         /\ t.due = due
                  /\ tasks[n].every = OneHour =>
                       due = IF ran + HourSecs < now THEN now
                             ELSE ran + HourSecs]_vars

\* C8's case: the run of A has ended at this instant, and the watch loop has
\* already armed A's timer for an hour after the end.
C8_Witness ==
  /\ abortController = "live" /\ ~dirty
  /\ history["A"] # <<>>
  /\ history["A"][Len(history["A"])].endTime = now
  /\ tasks["A"].present /\ tasks["A"].lastRunTime = now
  /\ exec["A"].status = "pending"
  /\ exec["A"].nextRunTime = now + HourSecs
  /\ \E t \in timers : /\ t.name = "A" /\ t.id = exec["A"].timer
                        /\ t.due = now + HourSecs

\* C9: a task's history is bounded: in every reachable state it holds at
\* most the 50 most recent records, so that appending to a history of 50
\* drops the oldest record.
C9_HistoryBounded ==
  /\ [](\A n \in Names : Len(history[n]) <= HistoryLimit)
  /\ [][\A n \in Names :
          Len(history[n]) = HistoryLimit /\ history'[n] # history[n] =>
            /\ Len(history'[n]) = HistoryLimit
            /\ SubSeq(history'[n], 1, HistoryLimit - 1)
                 = SubSeq(history[n], 2, HistoryLimit)]_vars

\* C10: a task's history is discarded when the task is removed: no history
\* record is held for a name that is not registered, from the removal until
\* a task of that name is added again; replacing a task with addTask keeps
\* its history.
C10_HistoryDiscarded ==
  /\ [](\A n \in Names : ~tasks[n].present => history[n] = <<>>)
  /\ [][\A n \in Names :
          tasks[n].present /\ Adds(n) => history'[n] = history[n]]_vars

C12_Drain ==
  /\ [](abortController = "null" =>
         \A n \in Names :
           \/ exec[n] = NoEntry
           \/ /\ exec[n].status = "running"
              /\ \E r \in runs : r.name = n /\ r.id = exec[n].abort /\ r.aborted)
  /\ [][\A n \in Names :
          Finishes(n) /\ last'.op = "aborted" => exec'[n] = NoEntry]_vars
  /\ (<>[](abortController # "live") => <>[](\A n \in Names : exec[n] = NoEntry))

\* C12's case: the loop has ended after a stop, B's run has been aborted and
\* its entry waits for the run to end; A's Pending entry is gone.
C12_Witness ==
  /\ abortController = "null"
  /\ tasks["A"].present /\ exec["A"] = NoEntry
  /\ exec["B"].status = "running"
  /\ \E r \in runs : r.name = "B" /\ r.id = exec["B"].abort /\ r.aborted

\* What the interval forms say: blanks, a decimal number, at least one
\* blank, a unit name in any letter case, blanks.
UnitSeconds ==
  { <<<<"s", "e", "c", "o", "n", "d">>, 1>>, <<<<"m", "i", "n", "u", "t", "e">>, 60>>,
    <<<<"h", "o", "u", "r">>, 3600>>, <<<<"d", "a", "y">>, 86400>> }

\* The unit names, singular and plural, with their seconds.
UnitNames == UnitSeconds \cup {<<Append(u[1], "s"), u[2]>> : u \in UnitSeconds}

SameLetters(a, b) ==
  /\ Len(a) = Len(b)
  /\ \A i \in 1..Len(a) : a[i] = b[i] \/ LowerChar(a[i]) = b[i]

RECURSIVE Decimal(_, _)
Decimal(ds, acc) ==
  IF ds = <<>> THEN acc ELSE Decimal(Tail(ds), 10 * acc + DigitVal(Head(ds)))

AllIn(s, from, to, chars) == \A i \in from..to : s[i] \in chars

\* The values '<n> <unit>' stands for, for the ways to read s as that form:
\* blanks up to a, digits up to b, blanks up to c, the unit name up to d.
IntervalValues(s) ==
  UNION { UNION { UNION { UNION {
    { Decimal(SubSeq(s, a + 1, b), 0) * u[2] :
        u \in {n \in UnitNames : SameLetters(SubSeq(s, c + 1, d), n[1])} } :
    d \in {j \in (c + 1)..Len(s) : AllIn(s, j + 1, Len(s), WhiteSpace)} } :
    c \in {j \in (b + 1)..Len(s) : AllIn(s, b + 1, j, WhiteSpace)} } :
    b \in {j \in (a + 1)..Len(s) : AllIn(s, a + 1, j, Digits)} } :
    a \in {j \in 0..Len(s) : AllIn(s, 1, j, WhiteSpace)} }

\* C13: parseInterval returns n * unitSeconds for every string of the form
\* '<n> <unit>' (blanks around, n a non-negative integer, unit one of
\* second, minute, hour, day, singular or plural, in any letter case) and
\* null for every other string.
C13_ParseInterval ==
  LET interval == tasks["A"].every
  IN IF IntervalValues(interval) # {}
     THEN IntervalValues(interval) = {parseInterval(interval)}
     ELSE parseInterval(interval) = NoTime

\* The task as src/utility/getNextRunTime.ts reads it: the recurrence under
\* repeat, the window under after and before.
AsRepeatTask(task) ==
  [task EXCEPT !.repeat = task.every, !.after = task.from, !.before = task.to]

\* C14: getNextRunTime returns null for every task that has neither every
\* nor once, and for every task whose interval parseInterval cannot parse,
\* whatever the other fields and the current time.
C14_NullWithoutRecurrence ==
  LET task == tasks["A"]
      unparsable == Len(task.every) > 0 /\ IntervalValues(task.every) = {}
      neither == Len(task.every) = 0 /\ ~task.once
  IN unparsable \/ neither =>
       /\ getNextRunTime(task, now) = NoTime
       /\ getNextRunTimeRepeat(AsRepeatTask(task), now) = NoTime

\* The clock readings at or after t at which the due time is computed again
\* once r was returned.
LaterTimes(t, r) ==
  {u \in CalcTimes \cup {t, r, r + SecondSecs, r + DaySecs} : u >= t}

\* C15: getNextRunTime is monotonic: if it returned instant r for a task,
\* then computing it again, at any later or equal current time, with
\* lastRunTime = r never returns an instant <= r.
C15_Monotonic ==
  LET task == tasks["A"]
      r == getNextRunTime(task, now)
      rr == getNextRunTimeRepeat(AsRepeatTask(task), now)
  IN /\ r # NoTime =>
          \A u \in LaterTimes(now, r) :
            LET again == getNextRunTime([task EXCEPT !.lastRunTime = r], u)
            IN again = NoTime \/ again > r
     /\ rr # NoTime =>
          \A u \in LaterTimes(now, rr) :
            LET again == getNextRunTimeRepeat(
                           AsRepeatTask([task EXCEPT !.lastRunTime = rr]), u)
            IN again = NoTime \/ again > rr

\* The seconds since midnight of instant t on the clock of the timezone.
TimeOfDay(t, tz) == (t + UtcOffset(t, tz)) % DaySecs

\* Instant t has a time of day inside the task's window, both ends included.
InsideWindow(task, t) ==
  /\ Len(task.from) > 0 =>
       TimeOfDay(t, task.timezone) >= task.from[1] * HourSecs + task.from[2] * MinuteSecs
  /\ Len(task.to) > 0 =>
       TimeOfDay(t, task.timezone) <= task.to[1] * HourSecs + task.to[2] * MinuteSecs

\* C16: for every task with a time window, every current time and every
\* lastRunTime, a non-null result of getNextRunTime has a time of day inside
\* the window [from, to] in the task's timezone.
C16_InsideWindow ==
  LET task == tasks["A"]
      r == getNextRunTime(task, now)
  IN (Len(task.from) > 0 \/ Len(task.to) > 0) /\ r # NoTime =>
       InsideWindow(task, r)

\* C17: for every task with a weekday set and/or a dayOfMonth, every current
\* time and every lastRunTime, a non-null result of getNextRunTime falls on
\* a day for which checkDayConditions holds.
C17_OnEligibleDay ==
  LET task == tasks["A"]
      r == getNextRunTime(task, now)
  IN (Len(task.on) > 0 \/ task.dayOfMonth # 0) /\ r # NoTime =>
       checkDayConditions(task, r)

\* The comma-separated items of a string.
RECURSIVE Items(_, _, _)
Items(s, item, found) ==
  IF s = <<>> THEN found \cup {item}
  ELSE IF Head(s) = "," THEN Items(Tail(s), <<>>, found \cup {item})
  ELSE Items(Tail(s), Append(item, Head(s)), found)

\* The weekdays (0 = Sunday) a task's weekday list names.
WeekdaySet(on) ==
  {d \in 0..6 : \E item \in Items(on, <<>>, {}) : SameLetters(item, WEEK_DAYS(d))}

\* The moments a day is tested for: the clock's reading and the days after.
TestedMoments == {now + k * DaySecs : k \in 0..MaxDaysTested}

Unconstrained(task) ==
  /\ task.from = <<>> /\ task.to = <<>>
  /\ task.on = <<>> /\ task.dayOfMonth = 0

\* C19: for an interval task whose candidate lastRunTime + interval is
\* already before the current time, the computed due time is clamped forward
\* to now + interval (here: for a task nothing else restricts).
C19_ClampToNextInterval ==
  LET task == tasks["A"]
      interval == parseInterval(task.every)
  IN /\ Len(task.every) > 0 /\ interval > 0
     /\ task.lastRunTime # 0 /\ task.lastRunTime + interval < now
     /\ Unconstrained(task)
     => getNextRunTime(task, now) = now + interval

\* C20: for an interval task with no lastRunTime (unset or 0) and no day or
\* window constraint, getNextRunTime returns the current instant: the first
\* run of a newly added task is due immediately, and the watch loop arms
\* its timer for that instant.
C20_FirstRunDueNow ==
  LET task == tasks["A"]
  IN /\ Len(task.every) > 0 /\ parseInterval(task.every) > 0
     /\ task.lastRunTime = 0
     /\ Unconstrained(task)
     => /\ getNextRunTime(task, now) = now
        /\ exec["A"].status = "pending" =>
             /\ exec["A"].nextRunTime = now
             /\ \A t \in timers : t.name = "A" => t.due = now

\* The watch loop scheduled a '1 hour' task that never ran for the instant
\* of the computation.
C20_Witness ==
  /\ tasks["A"].every = <<"1", " ", "h", "o", "u", "r">>
  /\ tasks["A"].lastRunTime = 0
  /\ Unconstrained(tasks["A"])
  /\ exec["A"].status = "pending"
  /\ exec["A"].nextRunTime = now
  /\ \E t \in timers : t.name = "A" /\ t.id = exec["A"].timer /\ t.due = now

\* The task has a recurrence getNextRunTime accepts.
Recurs(task) ==
  IF Len(task.every) > 0 THEN parseInterval(task.every) > 0 ELSE task.once

\* The day k days after the candidate's day satisfies the day and window
\* constraints: it is an eligible day, and the window is still open at the
\* first instant of the day at or after the candidate.
DayEligible(task, candidate, k) ==
  LET tz == task.timezone
      day == DayIndex(candidate, tz) + k
      midnight == LocalInstant(day, 0, tz)
      start == IF k = 0 THEN candidate ELSE midnight
      opens == IF task.from = <<>> THEN start
               ELSE LocalInstant(day, task.from[1] * HourSecs
                                      + task.from[2] * MinuteSecs, tz)
      first == IF start > opens THEN start ELSE opens
      closes == LocalInstant(day, task.to[1] * HourSecs
                                  + task.to[2] * MinuteSecs, tz)
  IN /\ task.dayOfMonth = 0 \/ task.dayOfMonth = DateOf(midnight, tz)
     /\ task.on = <<>> \/ WeekdayOf(midnight, tz) \in WeekdaySet(task.on)
     /\ task.to = <<>> \/ first <= closes

C22_NullNotCached ==
  /\ [][tasks' # tasks /\ abortController' = "live" => dirty']_vars
  /\ [][Watches =>
          \A n \in Names :
            tasks[n].present /\ exec[n].status \in {"none", "pending"} =>
              LET due == getNextRunTime(tasks[n], now)
              IN IF due # NoTime
                 THEN /\ exec'[n].status = "pending"
                      /\ exec'[n].nextRunTime = due
                      /\ \E t \in timers' :
                           /\ TimersOf(n, timers') = {t}
                           /\ t.id = exec'[n].timer
                           /\ t.due = due
                 ELSE /\ TimersOf(n, timers') = {}
                      /\ exec'[n].status = exec[n].status
                      /\ exec'[n].nextRunTime = NoTime
                      /\ exec'[n].timer = 0]_vars

\* The watch loop stored a null due time in A's Pending entry, the task was
\* replaced by one that is due, and the loop is notified of the change.
C22_Witness ==
  /\ abortController = "live" /\ dirty
  /\ tasks["A"].present
  /\ exec["A"].status = "pending"
  /\ exec["A"].nextRunTime = NoTime /\ exec["A"].timer = 0
  /\ getNextRunTime(tasks["A"], now) # NoTime

\* C23: in every reachable state an execution entry with status Pending has
\* an armed timer and a non-null due time, and an entry with status Running
\* has no timer, the abortController of a run in flight and a startTime.
C23_EntryShape ==
  \A n \in Names :
    /\ exec[n].status = "pending" =>
         /\ exec[n].nextRunTime # NoTime
         /\ \E t \in timers : t.name = n /\ t.id = exec[n].timer
    /\ exec[n].status = "running" =>
         /\ exec[n].timer = 0
         /\ \E r \in runs : r.name = n /\ r.id = exec[n].abort
         /\ exec[n].startTime # NoTime

\* C24: an execution entry's nextRunTime is cleared when runTask moves the
\* entry to Running: no Running entry carries a nextRunTime.
C24_RunningHasNoDue ==
  \A n \in Names : exec[n].status = "running" => exec[n].nextRunTime = NoTime

\* C25: each task's due time arms exactly one timer: in every reachable
\* state at most one timer is armed per task name and every armed timer is
\* the timer of a Pending entry of a registered task, armed for the entry's
\* due time; and a run starts only from a timer fire: a step that hands a
\* message to the runner consumes a due timer of that task.
C25_OneTimerPerTask ==
  /\ [](\A n \in Names : Cardinality(TimersOf(n, timers)) <= 1)
  /\ [](\A t \in timers :
          /\ tasks[t.name].present
          /\ exec[t.name].status = "pending"
          /\ exec[t.name].timer = t.id
          /\ exec[t.name].nextRunTime = t.due)
  /\ [][invocations' # invocations \/ ~(\A r \in runs' : \E q \in runs :
                                            q.name = r.name /\ q.id = r.id) =>
          /\ invocations' = invocations + 1
          /\ \E t \in timers :
               /\ t.due <= now
               /\ timers' = timers \ {t}
               /\ exec[t.name].status = "pending"
               /\ \A r \in runs' : r \notin runs => r.name = t.name]_vars

\* A's timer fired and its run is in flight, no timer is left for A, and
\* B's one timer is armed.
C25_Witness ==
  /\ exec["A"].status = "running"
  /\ TimersOf("A", timers) = {}
  /\ \E t \in timers : timers = {t} /\ t.name = "B" /\ exec["B"].timer = t.id

\* A poll of the running polling scheduler.
Polls == last'.op = "runTasks" /\ abortController = "live"

\* C26: in the polling scheduler, whenever a poll finds a task without
\* `several` still running and the time elapsed since its start exceeds its
\* noLongerThan duration, the 'exceeded max runtime' error is reported for
\* that task, and the run is not terminated.
C26_OverrunReported ==
  [][Polls =>
       \A n \in Names :
         /\ exec[n].isRunning /\ ~tasks[n].several
         /\ Len(tasks[n].noLongerThan) > 0
         /\ Truthy(parseInterval(tasks[n].noLongerThan))
         /\ now' - exec[n].startTime > parseInterval(tasks[n].noLongerThan)
         => /\ n \in last'.exceeded
            /\ exec'[n].isRunning
            /\ \A r \in runs : r.name = n => r \in runs']_vars

\* C27: in the polling scheduler, runTasks never launches a task whose state
\* is marked running unless the task sets `several`: such a task is skipped
\* at the poll, and its state, nextRun and lastRun included, its runs and
\* the run history are left as they are.
C27_RunningSkipped ==
  [][Polls =>
       \A n \in Names :
         exec[n].isRunning /\ ~tasks[n].several =>
           /\ n \notin last'.launched
           /\ exec'[n] = exec[n]
           /\ \A r \in runs' : r.name = n => r \in runs
           /\ \A i \in 1..Len(history') :
                history'[i].taskName = n => i <= Len(history) /\ history'[i] = history[i]]_vars

\* A poll has just skipped task A, which does not allow several runs and
\* whose run, launched at an earlier poll, has not returned; its interval
\* has elapsed since.
C27_Witness ==
  /\ last.op = "runTasks" /\ abortController = "live"
  /\ ~tasks["A"].several
  /\ exec["A"].isRunning
  /\ exec["A"].startTime + parseInterval(tasks["A"].every) <= now
  /\ "A" \notin last.launched

\* C28: for a once-per-day task that has run before, a non-null result of
\* getNextRunTime falls on a later calendar day, in the task's timezone,
\* than the day of lastRunTime.
C28_OnceNextDay ==
  LET task == tasks["A"]
      r == getNextRunTime(task, now)
  IN task.every = <<>> /\ task.once /\ task.lastRunTime # 0 /\ r # NoTime =>
       DayIndex(r, task.timezone) > DayIndex(task.lastRunTime, task.timezone)

\* The task registered under name n repeats at an interval and carries the
\* stamp of a finished run.
StampedIntervalTask(n) ==
  /\ tasks[n].present
  /\ parseInterval(tasks[n].every) > 0
  /\ tasks[n].lastRunTime # 0
  /\ Len(history[n]) > 0

\* C29: the next interval of a repeating task is measured from the
\* completion of its run: once a run of an interval task has ended at time
\* t, the due time of the Pending entry the running scheduler next gives the
\* task is at least t + interval.
C29_IntervalFromCompletion ==
  \A n \in Names :
    StampedIntervalTask(n) /\ exec[n].status = "pending" =>
      exec[n].nextRunTime >=
        history[n][Len(history[n])].endTime + parseInterval(tasks[n].every)

\* A run of task A that took an hour has ended, and the watch loop has given
\* the task its next Pending entry, due an interval after the end of the run.
C29_Witness ==
  /\ StampedIntervalTask("A")
  /\ exec["A"].status = "pending"
  /\ history["A"][Len(history["A"])].endTime
       > history["A"][Len(history["A"])].startTime
  /\ history["A"][Len(history["A"])].startTime > 0
  /\ exec["A"].nextRunTime =
       history["A"][Len(history["A"])].endTime + parseInterval(tasks["A"].every)

\* A run of task n whose abortController has been aborted is in flight.
AbortedRunOf(n) == \E r \in runs : r.name = n /\ r.aborted

\* C30: a run whose signal was aborted by the stop of the scheduler before
\* the runner reported the request handled finishes, and when it does it
\* appends exactly one record to the history of its task, of status
\* 'failed' with the message 'Task was aborted', the earlier records being
\* kept, and the execution entry of its task is deleted.
C30_AbortedRunFails ==
  /\ [][\A r \in runs :
          r.aborted /\ r \notin runs' =>
            LET old == history[r.name]
                new == history'[r.name]
            IN /\ Len(new) = Len(old) + 1
               /\ \A i \in 1..Len(old) : new[i] = old[i]
               /\ new[Len(new)].status = "failed"
               /\ new[Len(new)].message = "Task was aborted"
               /\ \A n \in Names \ {r.name} : history'[n] = history[n]
               /\ exec'[r.name] = NoEntry]_vars
  /\ \A n \in Names : AbortedRunOf(n) ~> ~AbortedRunOf(n)

\* The run of task A, started at a known time and aborted by the stop of
\* the scheduler, has just finished: its record closes A's history and A
\* has no execution entry.
C30_Witness ==
  /\ last.op = "aborted" /\ last.name = "A"
  /\ abortController = "null"
  /\ exec["A"] = NoEntry
  /\ Len(history["A"]) > 0
  /\ history["A"][Len(history["A"])].status = "failed"
  /\ history["A"][Len(history["A"])].message = "Task was aborted"
  /\ history["A"][Len(history["A"])].startTime > 0

\* A step of stopScheduler on a running scheduler, and the step by which
\* the loop it stopped ends.
Stops == abortController = "live" /\ abortController' = "aborted"

LoopEnds == abortController = "aborted" /\ abortController' = "null"

\* The timers whose callback runs in the step and finds no execution entry:
\* a timer no entry refers to leaves the armed timers by firing only.
FiredWithoutEntry == {t \in timers \ timers' : exec[t.name].status = "none"}

\* C31: a run that never started leaves no trace.  A stop of the scheduler,
\* the end of the loop it stopped and a removeTask, made while the entry of
\* a task is Pending, append no record to the history of that task and
\* leave the lastRunTime of its definition as it is; a timer callback that
\* finds no execution entry for its task hands nothing to the runner and
\* records no history.
C31_NoTrace ==
  [][ /\ \A n \in Names :
           exec[n].status = "pending" /\ (Stops \/ LoopEnds \/ Removes(n)) =>
             /\ history'[n] = history[n]
             /\ tasks'[n].present => tasks'[n].lastRunTime = tasks[n].lastRunTime
             /\ RunsOf(n) \subseteq runs' /\ \A r \in runs' : r.name = n => r \in runs
      /\ FiredWithoutEntry # {} =>
           UNCHANGED <<runs, invocations, history, exec, tasks>> ]_vars

\* The scheduler has been stopped while task A, which never ran, waits for
\* its timer: A has no history and no lastRunTime, nothing was handed to
\* the runner, and B is not registered and has neither entry nor history.
C31_Witness ==
  /\ abortController = "aborted"
  /\ exec["A"].status = "pending" /\ exec["A"].timer # 0
  /\ tasks["A"].present /\ tasks["A"].lastRunTime = 0
  /\ history["A"] = <<>>
  /\ ~tasks["B"].present /\ exec["B"] = NoEntry /\ history["B"] = <<>>
  /\ invocations = 0

\* The hour:minute of instant t on the clock of the timezone, in minutes.
MinuteOfDay(t, tz) == TimeOfDay(t, tz) \div MinuteSecs

\* C32: the window is inclusive on both ends at hour:minute granularity.
\* For a task with a window end whose first candidate (the earliest run
\* time, moved up to the window's start) falls on an eligible day: if the
\* candidate's hour:minute is at most `to`, whatever its seconds, the
\* candidate is accepted (it, or now if it is past, is the result); if its
\* hour:minute is later than `to`, the search goes on with the next day.
C32_WindowEndInclusive ==
  LET task == tasks["A"]
      earliest == EarliestRunTime(task, now)
      candidate == AfterFrom(task, earliest)
      end == task.to[1] * 60 + task.to[2]
  IN Recurs(task) /\ Len(task.to) > 0 /\ checkDayConditions(task, earliest) =>
       IF MinuteOfDay(candidate, task.timezone) <= end
       THEN getNextRunTime(task, now) = (IF candidate < now THEN now ELSE candidate)
       ELSE getNextRunTime(task, now) = WalkDays(task, earliest, 1, now)

\* C33: at most one watch loop is active per agent.  A loop is started only
\* when the agent has none, neither running nor shutting down; runScheduler
\* on an agent whose scheduler is running reports that and changes no entry,
\* no timer and nothing else; stopScheduler on an agent whose scheduler is
\* not running changes nothing.
C33_OneLoop ==
  [][ /\ abortController' = "live" /\ abortController # "live" =>
           abortController = "null"
      /\ last'.op = "runScheduler" /\ abortController # "null" =>
           /\ last'.result = "already running"
           /\ UNCHANGED <<abortController, exec, timers, runs, dirty, tasks,
                          history, autoStart, invocations, now>>
      /\ last'.op = "stopScheduler" /\ abortController = "null" =>
           /\ last'.result = "Scheduler is not running"
           /\ UNCHANGED <<abortController, exec, timers, runs, dirty, tasks,
                          history, autoStart, invocations, now>> ]_vars

\* runScheduler has just been called on a running scheduler with A Pending,
\* its timer armed, and B's run in flight: it reported "already running".
C33_Witness ==
  /\ last.op = "runScheduler" /\ last.result = "already running"
  /\ abortController = "live"
  /\ exec["A"].status = "pending"
  /\ \E t \in timers : t.name = "A" /\ t.id = exec["A"].timer
  /\ exec["B"].status = "running"

\* C34: a restart is never lost.  Once runScheduler has been called on an
\* agent with at least one task registered, the scheduler is eventually
\* running, also when the call was made after stopScheduler had returned
\* and before the loop it stopped has ended.
C34_RestartNotLost ==
  [](last.op = "runScheduler" /\ ~isEmpty(tasks) => <>(abortController = "live"))

\* C35: whenever the scheduler is not running (the abortController of the
\* execution state is null), no execution entry is Pending and no timer is
\* armed; an entry that remains is Running and the abortController of its
\* run has been aborted.
C35_StoppedHoldsNoPending ==
  abortController = "null" =>
    /\ timers = {}
    /\ \A n \in Names :
         /\ exec[n].status # "pending"
         /\ exec[n].status = "running" =>
              \E r \in runs : r.name = n /\ r.id = exec[n].abort /\ r.aborted

\* The scheduler was stopped with A's run in flight and B registered: the
\* loop has ended, A's entry is Running with its run aborted, B has no
\* entry, no timer is armed.
C35_Witness ==
  /\ abortController = "null"
  /\ exec["A"].status = "running"
  /\ \E r \in runs : r.name = "A" /\ r.id = exec["A"].abort /\ r.aborted
  /\ tasks["B"].present /\ exec["B"] = NoEntry
  /\ timers = {}

\* C36: the run started when a task's timer fires uses the definition
\* registered under the task's name at that time: the message handed to the
\* runner is the message of that definition, also after addTask replaced
\* the definition of a Pending task by one with the same due time.
C36_RunUsesCurrentDefinition ==
  [][\A r \in runs' \ runs :
       tasks[r.name].present => r.message = tasks[r.name].message]_vars

\* C37: removeTask on a task whose entry is Running removes the task from
\* the registry, leaves the entry and the run as they are (no cancellation
\* is signalled), and a Running entry changes only by being deleted when
\* its run completes.
C37_RemoveLeavesRun ==
  [][\A n \in Names :
       /\ (tasks[n].present /\ ~tasks'[n].present /\ exec[n].status = "running")
            => (exec'[n] = exec[n] /\ runs' = runs)
       /\ (exec[n].status = "running" /\ exec'[n] # exec[n])
            => /\ exec'[n] = NoEntry
               /\ last'.op \in {"handled", "aborted"}
               /\ last'.name = n
               /\ \E r \in runs \ runs' : r.name = n]_vars

\* A removed task whose run is still in flight, uncancelled, under a running
\* scheduler that has taken the removal up.
C37_Witness ==
  /\ ~tasks["A"].present
  /\ exec["A"].status = "running"
  /\ \E r \in runs : r.name = "A" /\ r.id = exec["A"].abort /\ ~r.aborted
  /\ abortController = "live"
  /\ ~dirty

\* Whether the task's recurrence is one getNextRunTime accepts.
ValidRecurrence(task) ==
  IF Len(task.every) > 0
  THEN parseInterval(task.every) \notin {NoTime, NaN, 0}
  ELSE task.once

\* Whether a day after today, not later than the last day the clock
\* reaches, meets the task's day constraints and its window is not empty.
EligibleLater(task, t) ==
  \E k \in 1..MaxWaitDays :
    LET day == LocalInstant(DayIndex(t, task.timezone) + k, 0, task.timezone)
    IN /\ day <= WaitEnd
       /\ checkDayConditions(task, day)
       /\ ~AfterTo(task, AfterFrom(task, day))

\* C38: while the scheduler stays running, every registered task with a
\* valid recurrence whose day and window constraints are met on a future
\* day is eventually run, also when nothing else changes the task state and
\* its due time was null when last computed.
C38_EligibleTaskRuns ==
  \A n \in Names :
    [](/\ abortController = "live"
       /\ tasks[n].present
       /\ ValidRecurrence(tasks[n])
       /\ EligibleLater(tasks[n], now)
       => <>(exec[n].status = "running"))

\* C39: in the polling scheduler a launched task stays marked as running
\* (isRunning set, its history entry without endTime) until the spawned
\* agent has reported the request handled, and a launch whose spawn failed
\* is finished with the error in its history entry.
C39_RunningUntilHandled ==
  /\ \A r \in runs :
       /\ history[r.entry].endTime = 0
       /\ ~tasks[r.name].several => exec[r.name].isRunning
  /\ \A i \in 1..Len(history) :
       history[i].error # "" => history[i].endTime # 0

\* Whether task n was launched on the day the clock shows.
LaunchedToday(n) ==
  \E i \in 1..Len(history) :
    /\ history[i].taskName = n
    /\ DayIndex(history[i].startTime, tasks[n].timezone) = DayIndex(now, tasks[n].timezone)

\* C40: in the polling scheduler a once-per-day task restricted to
\* dayOfMonth = d is scheduled on day d of every month during which the
\* scheduler keeps polling: once the running scheduler has polled on such a
\* day, the task has been launched on that day.
C40_ScheduledEveryMonth ==
  \A n \in Names :
    (/\ abortController = "live"
     /\ last.op = "runTasks"
     /\ tasks[n].once
     /\ tasks[n].dayOfMonth # 0
     /\ DateOf(now, tasks[n].timezone) = tasks[n].dayOfMonth)
    => LaunchedToday(n)

====
